---- MODULE Spec2Model ----
(***************************************************************************)
(* Model of exblas::cpu::ExDOTFPE (src/MPI/exblas/exdot_omp.h): the OpenMP  *)
(* exact dot product.  Every thread of the parallel region sums its range   *)
(* of the input into its own superaccumulator through an FPE cache, then    *)
(* the threads run the custom tree reduction (Reduction / ReductionStep)    *)
(* and the main thread copies acc[0] to the caller's buffer.                *)
(*                                                                         *)
(* Both builds are modelled: vcl = TRUE is the 8-lane build (_WITHOUT_VCL   *)
(* undefined: spin-wait on the ready counters), vcl = FALSE the scalar      *)
(* build (_WITHOUT_VCL defined: omp barrier per level).  nops is the number *)
(* of operands (2: lines 92-151, 3: lines 153-225).                         *)
(*                                                                         *)
(* accumulate.h and ExSUM.FPE.hpp are not part of the sources at hand:      *)
(* Normalize, the FPE cache, TwoProductFMA and the superaccumulator layout  *)
(* are modelled from the specification, on a scaled-down number format      *)
(* (BIN_COUNT bins of DIGITS bits in WORDBITS-bit words, MANTBITS-bit       *)
(* floating-point mantissa).  Shared memory is sequentially consistent      *)
(* (x86 TSO with volatile accesses, as the code assumes).                   *)
(***************************************************************************)
EXTENDS Integers, Sequences, FiniteSets

\* ------------------------------------------------------------- bounds
MaxThreads == 4      \* omp_get_max_threads() in the model
MaxN == 17           \* largest input length N with the lanes
MaxNScalar == 5      \* largest input length N without the lanes
LiveMaxN == 1        \* largest input length N in the termination check
BIN_COUNT == 3       \* bins per superaccumulator (39 in accumulate.h)
DIGITS == 4          \* bits of a normalized bin (52 in accumulate.h)
WORDBITS == 8        \* bits of a bin word (64: int64_t)
MANTBITS == 2        \* mantissa bits of the floating-point format (53)

\* ------------------------------------------------- program constants
LANES == 8           \* width of a vcl::Vec8d batch: "& ~7ul", "i+=8"
IMIN == 0
IMAX == BIN_COUNT - 1

Threads == 0 .. (MaxThreads - 1)
Bins == IMIN .. IMAX
Index == 0 .. (MaxN + LANES)

\* ----------------------------------------------------- integer helpers
RECURSIVE Pow2(_)
\* 1 << k
Pow2(k) == IF k <= 0 THEN 1 ELSE 2 * Pow2(k - 1)

\* x & ~7ul for x >= 0: round down to a multiple of 8
RoundDownLanes(x) == x - (x % LANES)

\* tid | (1 << (s-1)) for the tid the code uses it with, in general:
\* sets bit s-1 of tid
OrBit(tid, s) ==
    IF (tid \div Pow2(s - 1)) % 2 = 1 THEN tid ELSE tid + Pow2(s - 1)

\* two's-complement wrap of x to a signed WORDBITS-bit word (int64_t)
Wrap(x) ==
    LET m == Pow2(WORDBITS)
        y == x % m
    IN  IF y >= m \div 2 THEN y - m ELSE y

\* ------------------------------------------- floating-point toy format
Abs(x) == IF x < 0 THEN -x ELSE x

RECURSIVE Ulp(_)
\* spacing of the MANTBITS-bit floating-point numbers around m >= 0
Ulp(m) == IF m < Pow2(MANTBITS) THEN 1 ELSE 2 * Ulp(m \div 2)

\* round-to-nearest-even to MANTBITS bits of mantissa
Fl(x) ==
    LET m == Abs(x)
        u == Ulp(m)
        q == m \div u
        rem == m % u
        up == (2 * rem > u) \/ (2 * rem = u /\ q % 2 = 1)
        v == IF up THEN (q + 1) * u ELSE q * u
    IN  IF x < 0 THEN -v ELSE v

\* TwoProductFMA(a, b, r1): p = fl(a*b), r1 = fma(a, b, -p), so p + r1 = a*b
TwoProductFMA(a, b) == << Fl(a * b), a * b - Fl(a * b) >>

\* vcl::mul_add(a, b, 0) / a*b : one rounded product
MulAdd(a, b) == Fl(a * b)

\* --------------------------------------------------------- the inputs
\* the calls tried: the 2-operand entry point on input vectors 1, the
\* 3-operand entry point on input vectors 2
Calls == { [ops |-> 2, k |-> 1], [ops |-> 3, k |-> 2] }

\* the lengths tried with the lanes: up to MaxN, those that are a multiple
\* of the width of a batch, one more, or one less
LaneLengths == { n \in 0 .. MaxN : n % LANES \in {0, 1, LANES - 1} }

\* element i of the operands a, b, c of input vector k (get_element / make_vcl_vec8d)
ElemA(k, i) == ((i + k) % 4) - 1
ElemB(k, i) == 3 - 2 * ((i * k) % 3)
ElemC(k, i) == (i % 2) + 2

\* What one element contributes to the cache: the 2-operand kernel
\* accumulates x and r1 of TwoProductFMA, the 3-operand one x2 only.
Term(k, ops, i) ==
    IF ops = 2
    THEN TwoProductFMA(ElemA(k, i), ElemB(k, i))[1] + TwoProductFMA(ElemA(k, i), ElemB(k, i))[2]
    ELSE MulAdd(MulAdd(ElemA(k, i), ElemB(k, i)), ElemC(k, i))

RECURSIVE SumTerms(_, _, _, _)
\* the sum of the terms of elements from .. from+count-1
SumTerms(k, ops, from, count) ==
    IF count <= 0 THEN 0
    ELSE Term(k, ops, from) + SumTerms(k, ops, from + 1, count - 1)

\* ------------------------------------------------- superaccumulator
ZeroAcc == [b \in Bins |-> 0]

\* the number a superaccumulator represents
RECURSIVE ValueFrom(_, _)
ValueFrom(a, b) ==
    IF b > IMAX THEN 0 ELSE a[b] + Pow2(DIGITS) * ValueFrom(a, b + 1)
Value(a) == ValueFrom(a, IMIN)

\* Accumulate a floating-point value into the bins its exponent selects:
\* the low DIGITS bits into the lower bin, the rest into the next one.
AccumulateDouble(a, v) ==
    [b \in Bins |->
        IF b = IMIN THEN Wrap(a[b] + (v % Pow2(DIGITS)))
        ELSE IF b = IMIN + 1 THEN Wrap(a[b] + (v \div Pow2(DIGITS)))
        ELSE a[b]]

RECURSIVE CarryInto(_, _)
\* the carry that the sweep of Normalize brings into bin b
CarryInto(a, b) ==
    IF b = IMIN THEN 0 ELSE (a[b - 1] + CarryInto(a, b - 1)) \div Pow2(DIGITS)

\* Normalize(acc, imin, imax) with imin = IMIN, imax = IMAX: propagate the
\* carries upwards; every bin but the last ends in [0, 2^DIGITS), the last
\* one keeps its carry (and with it the sign).
Normalize(a) ==
    [b \in Bins |->
        IF b = IMAX THEN Wrap(a[b] + CarryInto(a, b))
        ELSE (a[b] + CarryInto(a, b)) % Pow2(DIGITS)]

IsNormalized(a) ==
    \A b \in Bins : b < IMAX => (a[b] >= 0 /\ a[b] < Pow2(DIGITS))

\* for(int i = IMIN; i <= IMAX; ++i) acc1[i] += acc2[i];
AddBins(a1, a2) == [b \in Bins |-> Wrap(a1[b] + a2[b])]

\* ------------------------------------------------ the code's conditions
\* a bug: the left bound not rounded down to the width of a batch
LeftBound_Unrounded(lanes, tid, n, nthreads) == (tid * n) \div nthreads

\* int l (line 109 with the lanes, line 134 without)
LeftBound(lanes, tid, n, nthreads) ==
    IF lanes THEN RoundDownLanes((tid * n) \div nthreads)
    ELSE (tid * n) \div nthreads

\* a bug: the "- 1" of lines 110 and 135 forgotten
RightBound_NoMinusOne(lanes, tid, n, nthreads) ==
    IF lanes THEN RoundDownLanes(((tid + 1) * n) \div nthreads)
    ELSE ((tid + 1) * n) \div nthreads

\* int r (line 110 with the lanes, line 135 without)
RightBound(lanes, tid, n, nthreads) ==
    IF lanes THEN RoundDownLanes(((tid + 1) * n) \div nthreads) - 1
    ELSE (((tid + 1) * n) \div nthreads) - 1

\* the for loops' conditions: i < r (line 112), i <= r (line 136)
LoopCond(lanes, iv, rv) == IF lanes THEN iv < rv ELSE iv <= rv

\* a bug: the remainder taken whenever the thread is the last one
TailCond_Always(tid, nthreads, rv, n) == tid + 1 = nthreads

\* a bug: the test for the last thread forgotten
TailCond_AnyThread(tid, nthreads, rv, n) == rv # n - 1

\* if( tid+1==tnum && r != N-1) (line 123)
TailCond(tid, nthreads, rv, n) == tid + 1 = nthreads /\ rv # n - 1

\* make_vcl_vec8d(a, r, N-r): a partial load of N-r lanes (none when the
\* count is not positive, all when it exceeds the width)
PartialLanes(count) ==
    IF count < 0 THEN 0 ELSE IF count > LANES THEN LANES ELSE count

\* a bug: 1 << s for 1 << (s-1), which leaves out the last level
LevelCond_Shifted(sv, nthreads) == Pow2(sv) < nthreads

\* (unsigned)(1 << (s-1)) < tnum (line 73)
LevelCond(sv, nthreads) == Pow2(sv - 1) < nthreads

\* a bug: the shift of the level test is one short, every thread merges at
\* level 1
IsParent_Shifted(tid, sv) == tid % Pow2(sv - 1) = 0

\* tid % (1 << s) == 0 (line 81)
IsParent(tid, sv) == tid % Pow2(sv) = 0

\* unsigned int tid2 = tid | (1 << (s-1)) (line 83)
Tid2(tid, sv) == OrBit(tid, sv)

\* a bug: the last thread is never taken as a child
HasChild_DropLast(tid2, nthreads) == tid2 + 1 < nthreads

\* if(tid2 < tnum) (line 84)
HasChild(tid2, nthreads) == tid2 < nthreads

\* a bug: the wait ends one level early
WaitOver_Early(readyval, step) == ~(readyval < step - 1)

\* a bug: no wait at all
WaitOver_NoWait(readyval, step) == TRUE

\* a bug: the wait asks for one level more than the child will publish
WaitOver_Late(readyval, step) == ~(readyval <= step)

\* the exit of while(*ready < step) (line 48)
WaitOver(readyval, step) == ~(readyval < step)

\* a bug: acc1 is added to as it stands, only acc2 is normalized
StepAcc1_Unnormalized(a1, a2) == AddBins(a1, Normalize(a2))

\* ReductionStep lines 53-59: what acc1 and acc2 hold afterwards
StepAcc1(a1, a2) == AddBins(Normalize(a1), Normalize(a2))
StepAcc2(a1, a2) == Normalize(a2)

\* ------------------------------------------------------------- state
VARIABLES
    vcl,        \* TRUE: built with the lanes, FALSE: _WITHOUT_VCL
    nops,       \* 2 or 3 operands
    inp,        \* which input vectors
    N,          \* the length
    tnum,       \* omp_get_num_threads()
    pc,         \* where each thread is
    l, r, i,    \* each thread's locals l, r and loop index i
    s,          \* each thread's level s in Reduction
    cache,      \* the number each thread's FPE cache holds
    acc,        \* the superaccumulators
    ready,      \* the ready counters
    h_superacc, \* the caller's buffer
    mainpc,     \* the calling thread: "parallel" or "done"
    fed,        \* history: how often each index was fed to a cache
    tails,      \* history: the tail batches, [tid, from, lanes]
    local,      \* history: the value of acc[t] after the local phase
    contrib,    \* history: how often thread u's local sum is in acc[t]
    log         \* history: each thread's flush/normalize/inc/merge events

vars == << vcl, nops, inp, N, tnum, pc, l, r, i, s, cache, acc, ready,
           h_superacc, mainpc, fed, tails, local, contrib, log >>

params == << vcl, nops, inp, N, tnum >>
hist == << fed, tails, local, contrib, log >>

Team == 0 .. (tnum - 1)

\* what the caller's buffer holds on entry
Junk(k) == [b \in Bins |-> k + b]

\* std::vector<int64_t> acc(maxthreads*BIN_COUNT,0); std::vector<int32_t>
\* ready(maxthreads * linesize): both zero; the caller's buffer holds
\* whatever it held.
Init ==
    /\ vcl \in BOOLEAN
    /\ \E c \in Calls : nops = c.ops /\ inp = c.k
    /\ N \in (IF vcl THEN LaneLengths ELSE 0 .. MaxNScalar)
    /\ tnum \in 1 .. MaxThreads
    /\ pc = [t \in Threads |-> IF t < tnum THEN "start" ELSE "idle"]
    /\ l = [t \in Threads |-> 0]
    /\ r = [t \in Threads |-> 0]
    /\ i = [t \in Threads |-> 0]
    /\ s = [t \in Threads |-> 0]
    /\ cache = [t \in Threads |-> 0]
    /\ acc = [t \in Threads |-> ZeroAcc]
    /\ ready = [t \in Threads |-> 0]
    /\ h_superacc = Junk(inp)
    /\ mainpc = "parallel"
    /\ fed = [j \in Index |-> 0]
    /\ tails = {}
    /\ local = [t \in Threads |-> 0]
    /\ contrib = [t \in Threads |-> [u \in Threads |-> IF u = t THEN 1 ELSE 0]]
    /\ log = [t \in Threads |-> << >>]

\* feeding the elements from .. from+count-1
Feed(f, from, count) ==
    [j \in Index |-> IF j >= from /\ j < from + count THEN f[j] + 1 ELSE f[j]]

\* a bug: the counter is started at 1
Start_FromOne(t) ==
    /\ pc[t] = "start"
    /\ ready' = [ready EXCEPT ![t] = 1]
    /\ cache' = [cache EXCEPT ![t] = 0]
    /\ l' = [l EXCEPT ![t] = LeftBound(vcl, t, N, tnum)]
    /\ r' = [r EXCEPT ![t] = RightBound(vcl, t, N, tnum)]
    /\ i' = [i EXCEPT ![t] = LeftBound(vcl, t, N, tnum)]
    /\ pc' = [pc EXCEPT ![t] = "loop"]
    /\ UNCHANGED << params, s, acc, h_superacc, mainpc, hist >>

\* lines 102-110 / 134-135: the thread enters the region, binds its cache
\* to acc[tid], writes its counter and computes its range
Start(t) ==
    /\ pc[t] = "start"
    /\ ready' = [ready EXCEPT ![t] = 0]
    /\ cache' = [cache EXCEPT ![t] = 0]
    /\ l' = [l EXCEPT ![t] = LeftBound(vcl, t, N, tnum)]
    /\ r' = [r EXCEPT ![t] = RightBound(vcl, t, N, tnum)]
    /\ i' = [i EXCEPT ![t] = LeftBound(vcl, t, N, tnum)]
    /\ pc' = [pc EXCEPT ![t] = "loop"]
    /\ UNCHANGED << params, s, acc, h_superacc, mainpc, hist >>

\* one iteration of the for loop (lines 112-122 / 136-141)
LoopBody(t) ==
    /\ pc[t] = "loop"
    /\ LoopCond(vcl, i[t], r[t])
    /\ LET count == IF vcl THEN LANES ELSE 1 IN
        /\ cache' = [cache EXCEPT ![t] = @ + SumTerms(inp, nops, i[t], count)]
        /\ fed' = Feed(fed, i[t], count)
        /\ i' = [i EXCEPT ![t] = @ + count]
    /\ UNCHANGED << params, pc, l, r, s, acc, ready, h_superacc, mainpc,
                    tails, local, contrib, log >>

\* the loop's condition fails; with the lanes, lines 123-132 follow: the
\* last thread accumulates the remainder
Remainder(t) ==
    /\ pc[t] = "loop"
    /\ ~LoopCond(vcl, i[t], r[t])
    /\ IF vcl /\ TailCond(t, tnum, r[t], N)
       THEN LET from == r[t] + 1
                lanes == PartialLanes(N - from)
            IN  /\ r' = [r EXCEPT ![t] = from]
                /\ cache' = [cache EXCEPT ![t] = @ + SumTerms(inp, nops, from, lanes)]
                /\ fed' = Feed(fed, from, lanes)
                /\ tails' = tails \cup {[tid |-> t, from |-> from, lanes |-> N - from]}
       ELSE UNCHANGED << r, cache, fed, tails >>
    /\ pc' = [pc EXCEPT ![t] = "flush"]
    /\ UNCHANGED << params, l, i, s, acc, ready, h_superacc, mainpc,
                    local, contrib, log >>

\* cache.Flush() (line 143)
Flush(t) ==
    /\ pc[t] = "flush"
    /\ acc' = [acc EXCEPT ![t] = AccumulateDouble(@, cache[t])]
    /\ cache' = [cache EXCEPT ![t] = 0]
    /\ log' = [log EXCEPT ![t] = Append(@, << "flush", 0, t >>)]
    /\ pc' = [pc EXCEPT ![t] = "normalize"]
    /\ UNCHANGED << params, l, r, i, s, ready, h_superacc, mainpc,
                    fed, tails, local, contrib >>

\* where a thread goes on with level sv of Reduction: into the loop body,
\* or, when the loop's condition (line 73) fails, out of the region
Level(sv) == IF LevelCond(sv, tnum) THEN "red" ELSE "exit"

\* Normalize(&acc[tid*BIN_COUNT], imin, imax) (lines 144-145), then the
\* call of Reduction, which starts with s = 1
NormalizeLocal(t) ==
    /\ pc[t] = "normalize"
    /\ acc' = [acc EXCEPT ![t] = Normalize(@)]
    /\ local' = [local EXCEPT ![t] = Value(Normalize(acc[t]))]
    /\ log' = [log EXCEPT ![t] = Append(@, << "normalize", 0, t >>)]
    /\ s' = [s EXCEPT ![t] = 1]
    /\ pc' = [pc EXCEPT ![t] = Level(1)]
    /\ UNCHANGED << params, l, r, i, cache, ready, h_superacc, mainpc,
                    fed, tails, contrib >>

\* lines 81-88: does thread t merge at level sv?
Merges(t, sv) == IsParent(t, sv) /\ HasChild(Tid2(t, sv), tnum)

\* lines 76-77: ++*c; without the barrier the thread goes on to line 81
\* and, when it has nothing to merge, to the next level
Publish(t) ==
    /\ pc[t] = "red"
    /\ ready' = [ready EXCEPT ![t] = @ + 1]
    /\ log' = [log EXCEPT ![t] = Append(@, << "inc", s[t], t >>)]
    /\ IF ~vcl
       THEN pc' = [pc EXCEPT ![t] = "barrier"] /\ s' = s
       ELSE IF Merges(t, s[t])
       THEN pc' = [pc EXCEPT ![t] = "wait"] /\ s' = s
       ELSE pc' = [pc EXCEPT ![t] = Level(s[t] + 1)] /\ s' = [s EXCEPT ![t] = @ + 1]
    /\ UNCHANGED << params, l, r, i, cache, acc, h_superacc, mainpc,
                    fed, tails, local, contrib >>

\* a bug: no barrier, a thread goes on from line 79 without the others
Barrier_Alone ==
    \E t \in Team :
        /\ pc[t] = "barrier"
        /\ pc' = [pc EXCEPT ![t] =
                    IF Merges(t, s[t]) THEN "merge" ELSE Level(s[t] + 1)]
        /\ s' = [s EXCEPT ![t] = IF Merges(t, s[t]) THEN @ ELSE @ + 1]
        /\ UNCHANGED << params, l, r, i, cache, acc, ready, h_superacc,
                        mainpc, hist >>

\* #pragma omp barrier (line 79): released when the whole team has arrived
Barrier ==
    /\ \A t \in Team : pc[t] = "barrier"
    /\ pc' = [t \in Threads |->
                IF t \notin Team THEN pc[t]
                ELSE IF Merges(t, s[t]) THEN "merge" ELSE Level(s[t] + 1)]
    /\ s' = [t \in Threads |->
                IF t \in Team /\ ~Merges(t, s[t]) THEN s[t] + 1 ELSE s[t]]
    /\ UNCHANGED << params, l, r, i, cache, acc, ready, h_superacc,
                    mainpc, hist >>

\* while(*ready < step) (line 48): one evaluation of the condition reads
\* the child's counter; the thread stays in the loop on a value below the
\* level and goes on to the merge otherwise
Wait(t) ==
    /\ pc[t] = "wait"
    /\ LET readyval == ready[Tid2(t, s[t])] IN
          pc' = [pc EXCEPT ![t] =
                    IF WaitOver(readyval, s[t]) THEN "merge" ELSE "wait"]
    /\ UNCHANGED << params, l, r, i, s, cache, acc, ready, h_superacc,
                    mainpc, hist >>

\* ReductionStep lines 53-59, then ++s
Merge(t) ==
    /\ pc[t] = "merge"
    /\ LET c == Tid2(t, s[t]) IN
        /\ acc' = [acc EXCEPT ![t] = StepAcc1(acc[t], acc[c]),
                              ![c] = StepAcc2(acc[t], acc[c])]
        /\ contrib' = [contrib EXCEPT ![t] =
                          [u \in Threads |-> contrib[t][u] + contrib[c][u]]]
        /\ log' = [log EXCEPT ![t] = Append(@, << "merge", s[t], c >>)]
    /\ s' = [s EXCEPT ![t] = @ + 1]
    /\ pc' = [pc EXCEPT ![t] = Level(s[t] + 1)]
    /\ UNCHANGED << params, l, r, i, cache, ready, h_superacc, mainpc,
                    fed, tails, local >>

\* a bug: the copy moved into the region, done by thread 0 when it is through
Joined_ThreadZero == pc[0] = "exit"

\* the join at the end of the parallel region (line 148)
Joined == \A t \in Team : pc[t] = "exit"

\* lines 149-150: h_superacc[i] = acc[i]
CopyOut ==
    /\ mainpc = "parallel"
    /\ Joined
    /\ h_superacc' = acc[0]
    /\ mainpc' = "done"
    /\ UNCHANGED << params, pc, l, r, i, s, cache, acc, ready, hist >>

Step(t) ==
    \/ Start(t)
    \/ LoopBody(t)
    \/ Remainder(t)
    \/ Flush(t)
    \/ NormalizeLocal(t)
    \/ Publish(t)
    \/ Wait(t)
    \/ Merge(t)

Next ==
    \/ \E t \in Team : Step(t)
    \/ Barrier
    \/ CopyOut

Spec == Init /\ [][Next]_vars

\* Every thread of the team runs on a core of its own, and the runtime
\* releases a barrier the whole team has reached: as long as some step can
\* be taken, one is taken.  (No step of the model repeats a state, so this
\* is all the scheduling has to give.)
Fairness == WF_vars(Next)

\* The calls tried for termination: the 2-operand entry point on short
\* inputs (the reduction does not depend on the data), every team size.
LiveInit == Init /\ nops = 2 /\ N <= LiveMaxN

FairSpec == LiveInit /\ [][Next]_vars /\ Fairness

\* ------------------------------------------------- reference notions
RECURSIVE CeilLog2From(_, _)
CeilLog2From(n, k) == IF Pow2(k) >= n THEN k ELSE CeilLog2From(n, k + 1)
\* the least S with 2^S >= n
CeilLog2(n) == CeilLog2From(n, 0)

AllExited == \A t \in Team : pc[t] = "exit"
Done == mainpc = "done"
LocalPcs == {"start", "loop", "flush", "normalize"}
InLocal(t) == pc[t] \in LocalPcs

\* the range [lo, hi) of thread t as the specification states it, the
\* last thread's tail included
PartLo(t) ==
    IF vcl THEN LANES * (((t * N) \div tnum) \div LANES) ELSE (t * N) \div tnum
PartHi(t) == IF t + 1 = tnum THEN N ELSE PartLo(t + 1)

\* the superaccumulator of a run with one thread: all N elements through
\* the cache, one flush, one Normalize
RefT1 == Normalize(AccumulateDouble(ZeroAcc, SumTerms(inp, nops, 0, N)))

\* thread t's superaccumulator after its local phase, from its range alone
LocalRef(t) ==
    Normalize(AccumulateDouble(ZeroAcc,
        SumTerms(inp, nops, PartLo(t), PartHi(t) - PartLo(t))))

RECURSIVE TreeRef(_, _)
\* thread t's superaccumulator after levels 1..k of the binary tree on
\* the thread indices
TreeRef(t, k) ==
    IF k = 0 THEN LocalRef(t)
    ELSE LET prev == TreeRef(t, k - 1)
             c == t + Pow2(k - 1)
         IN  IF t % Pow2(k) = 0 /\ c < tnum
             THEN AddBins(Normalize(prev), Normalize(TreeRef(c, k - 1)))
             ELSE prev

RECURSIVE TreeMerges(_, _)
\* the merges of thread t at levels k, k+1, ... in the tree, in order
TreeMerges(t, k) ==
    IF Pow2(k - 1) >= tnum THEN << >>
    ELSE IF t % Pow2(k) = 0 /\ t + Pow2(k - 1) < tnum
         THEN << << "merge", k, t + Pow2(k - 1) >> >> \o TreeMerges(t, k + 1)
         ELSE TreeMerges(t, k + 1)

IsMerge(e) == e[1] = "merge"
IsInc(e) == e[1] = "inc"

RECURSIVE SumLocal(_)
\* the sum of the local values of threads 0 .. t
SumLocal(t) == IF t < 0 THEN 0 ELSE local[t] + SumLocal(t - 1)

\* ============================================================ claims

\* C1 as stated: for T in [1, N] the superaccumulator copied to the caller
\* is bit for bit the one of the run with one thread on the same input.
C1_BitsEqualT1 ==
    (Done /\ tnum >= 1 /\ tnum <= N) => h_superacc = RefT1

\* C1, amended: for T in [1, N] the superaccumulator copied to the caller
\* represents the same number as the one of the run with one thread, and
\* one more Normalize makes it bit for bit that one; with T = 1 it is that
\* one as it stands.
C1_NormalizedEqualT1 ==
    (Done /\ tnum >= 1 /\ tnum <= N) =>
        /\ Normalize(h_superacc) = RefT1
        /\ Value(h_superacc) = Value(RefT1)
        /\ (tnum = 1 => h_superacc = RefT1)

C1_Witness ==
    /\ Done /\ tnum >= 3 /\ tnum <= N
    /\ h_superacc # RefT1
    /\ Normalize(h_superacc) = RefT1

\* C2: for fixed N, inputs and T the output bits are those of the binary
\* tree on the thread indices, whatever the interleaving; and every thread
\* has merged exactly the children the tree gives it, in the tree's order.
C2_OutputIsTreeResult ==
    Done =>
        /\ h_superacc = TreeRef(0, CeilLog2(tnum))
        /\ \A t \in Team : SelectSeq(log[t], IsMerge) = TreeMerges(t, 1)

C2_Witness ==
    /\ Done /\ vcl /\ tnum = 4 /\ N > 2 * LANES
    /\ h_superacc = TreeRef(0, 2)
    /\ SelectSeq(log[0], IsMerge) = << << "merge", 1, 1 >>, << "merge", 2, 2 >> >>
    /\ SelectSeq(log[2], IsMerge) = << << "merge", 1, 3 >> >>

\* C3: when all threads have left Reduction, acc[0] represents the sum of
\* the local values of all T threads, each counted exactly once.
C3_MergeTotal ==
    AllExited =>
        /\ Value(acc[0]) = SumLocal(tnum - 1)
        /\ \A u \in Threads : contrib[0][u] = (IF u < tnum THEN 1 ELSE 0)

C3_Witness ==
    /\ AllExited /\ tnum = 3 /\ N > 0
    /\ \A t \in Team : local[t] # 0
    /\ Value(acc[0]) = local[0] + local[1] + local[2]

\* C4: in both builds the threads' ranges partition [0, N): no index is
\* fed twice, no index outside [0, N) is read, and once every thread is
\* through its loop and remainder every index of [0, N) has been fed once.
C4_Partition ==
    /\ \A j \in Index : fed[j] <= 1 /\ (j >= N => fed[j] = 0)
    /\ (\A t \in Team : pc[t] \notin {"start", "loop"}) =>
            \A j \in Index : j < N => fed[j] = 1

C4_Witness ==
    /\ vcl /\ tnum = 2 /\ N = 2 * LANES + 1
    /\ l[1] = LANES /\ i[0] = LANES /\ i[1] = 2 * LANES
    /\ tails = {[tid |-> 1, from |-> 2 * LANES, lanes |-> 1]}
    /\ \A j \in Index : fed[j] = (IF j < N THEN 1 ELSE 0)

\* the superaccumulators the next step of thread t reads or writes: its
\* own in the local phase (the cache is bound to it), its own and its
\* child's in a merge
Touches(t) ==
    IF pc[t] \in {"loop", "flush", "normalize"} THEN {t}
    ELSE IF pc[t] = "merge" THEN {t, t + Pow2(s[t] - 1)}
    ELSE {}

RECURSIVE LowBit(_)
\* the index of the lowest set bit of c > 0
LowBit(c) == IF c % 2 = 1 THEN 0 ELSE 1 + LowBit(c \div 2)
\* the level at which thread c > 0 is merged, and the thread that merges it
MergeLevel(c) == LowBit(c) + 1
ParentOf(c) == c - Pow2(LowBit(c))

\* C5: no two threads are about to access the same superaccumulator; only
\* its parent, at the level of the merge, touches another thread's one;
\* and a thread that has published the level at which it is merged does
\* not touch its own any more.
C5_NoSharedAccess ==
    /\ \A t, u \in Team : t # u => Touches(t) \cap Touches(u) = {}
    /\ \A t, u \in Team :
          (t # u /\ t \in Touches(u)) =>
              /\ ~InLocal(t)
              /\ u = ParentOf(t) /\ pc[u] = "merge" /\ s[u] = MergeLevel(t)
    /\ \A c \in Team :
          (c > 0 /\ ~InLocal(c) /\ ready[c] >= MergeLevel(c)) => Touches(c) = {}

C5_Witness ==
    /\ vcl /\ tnum = 4
    /\ pc[0] = "merge" /\ s[0] = 1
    /\ pc[2] = "merge" /\ s[2] = 1
    /\ Touches(0) = {0, 1} /\ Touches(2) = {2, 3}

\* C6: under fair scheduling the call ends up returned for good, with
\* every thread out of Reduction and none left in a spin-wait.
C6_Terminates == <>[](Done /\ AllExited /\ \A t \in Threads : pc[t] # "wait")

C6_Witness ==
    /\ vcl /\ tnum = 3
    /\ pc[0] = "wait" /\ s[0] = 2 /\ ready[2] < 2 /\ InLocal(2)

\* C7: the caller's buffer changes in one step only, taken when every
\* thread has left the region, and that step makes it acc[0]; before, it
\* holds what it held on entry, afterwards acc[0].
C7_OutputWrittenAtEnd ==
    /\ [][ (h_superacc' # h_superacc \/ mainpc' # mainpc) =>
             (AllExited /\ mainpc = "parallel" /\ mainpc' = "done"
                /\ h_superacc' = acc[0]) ]_vars
    /\ [](IF Done THEN AllExited /\ h_superacc = acc[0]
                  ELSE h_superacc = Junk(inp))

C7_Witness ==
    /\ Done /\ tnum >= 2 /\ nops = 3
    /\ h_superacc = acc[0] /\ \A b \in Bins : h_superacc[b] # Junk(inp)[b]

\* C8: with N = 0 no thread feeds an element, in a full batch or in a
\* tail batch, and the output is zero in every bin.
C8_EmptyInput ==
    N = 0 =>
        /\ \A j \in Index : fed[j] = 0
        /\ tails = {}
        /\ \A t \in Team : i[t] = 0 /\ cache[t] = 0 /\ acc[t] = ZeroAcc
        /\ Done => h_superacc = ZeroAcc

C8_Witness ==
    /\ N = 0 /\ vcl /\ tnum = 3 /\ Done
    /\ h_superacc = ZeroAcc /\ Junk(inp) # ZeroAcc

HasEvent(t, name) == \E k \in 1 .. Len(log[t]) : log[t][k][1] = name

\* C9: when a parent is about to normalize and add its child's
\* superaccumulator, the child is through its loop, has flushed its cache
\* and normalized, has published the level and has done all merges of its
\* own at the lower levels; and in every thread the flush is the first
\* event, the Normalize the second, and the increments come after.
C9_ChildComplete ==
    /\ \A t \in Team :
          pc[t] = "merge" =>
              LET c == t + Pow2(s[t] - 1) IN
                /\ c \in Team
                /\ pc[c] \in {"red", "barrier", "exit"}
                /\ cache[c] = 0
                /\ HasEvent(c, "flush") /\ HasEvent(c, "normalize")
                /\ ready[c] >= s[t] /\ s[c] >= s[t]
                /\ SelectSeq(log[c], IsMerge) = TreeMerges(c, 1)
                /\ Value(acc[c]) = Value(TreeRef(c, s[t] - 1))
    /\ \A t \in Team : \A k \in 1 .. Len(log[t]) :
          /\ (log[t][k][1] = "flush") <=> (k = 1)
          /\ (log[t][k][1] = "normalize") <=> (k = 2)

C9_Witness ==
    /\ vcl /\ tnum = 4 /\ N = 2 * LANES + 1
    /\ pc[0] = "merge" /\ s[0] = 2
    /\ SelectSeq(log[2], IsMerge) = << << "merge", 1, 3 >> >>
    /\ ready[2] = 2 /\ local[3] # 0
    /\ Value(acc[2]) = local[2] + local[3] /\ Value(acc[2]) # 0

\* C10: a step that changes ready[t] is a step of thread t alone, in
\* Reduction, and raises it by one to the thread's level s; the counter
\* never decreases; when the threads are through, every one of them has
\* incremented it ceil(log2 T) times, and with T = 1 nothing is
\* incremented or merged.
C10_ReadyCounter ==
    /\ [][ \A t \in Threads :
             /\ ready'[t] >= ready[t]
             /\ ready'[t] # ready[t] =>
                  /\ pc[t] = "red"
                  /\ ready'[t] = ready[t] + 1 /\ ready'[t] = s[t]
                  /\ \A u \in Threads \ {t} : pc'[u] = pc[u] /\ ready'[u] = ready[u]
         ]_vars
    /\ [](AllExited =>
            \A t \in Team :
              /\ ready[t] = CeilLog2(tnum)
              /\ Len(SelectSeq(log[t], IsInc)) = CeilLog2(tnum)
              /\ \A k \in 1 .. CeilLog2(tnum) :
                    SelectSeq(log[t], IsInc)[k] = << "inc", k, t >>
              /\ tnum = 1 => (ready[t] = 0 /\ Len(log[t]) = 2))

C10_Witness ==
    /\ AllExited /\ tnum = 3 /\ vcl
    /\ \A t \in Team : ready[t] = 2
    /\ Len(SelectSeq(log[1], IsInc)) = 2 /\ SelectSeq(log[1], IsMerge) = << >>

\* the merges recorded so far in which thread c is the child, as pairs of
\* the merging thread and the position in its log
MergesOf(c) ==
    UNION { { << t, k >> : k \in { j \in 1 .. Len(log[t]) :
                                    IsMerge(log[t][j]) /\ log[t][j][3] = c } }
            : t \in Team }

\* C11: a merge at level s is done only by a thread t with t mod 2^s = 0,
\* with the child t | 2^(s-1) = t + 2^(s-1) < T; a thread with
\* t mod 2^s # 0 merges neither at level s nor above; every thread of
\* [1, T) is the child of exactly one merge of the whole reduction, at the
\* level of its lowest set bit plus one, and thread 0 is never a child.
C11_TreeShape ==
    /\ \A t \in Team :
          /\ pc[t] = "merge" =>
                (t % Pow2(s[t]) = 0 /\ t + Pow2(s[t] - 1) < tnum)
          /\ \A k \in 1 .. Len(log[t]) :
                IsMerge(log[t][k]) =>
                    LET sv == log[t][k][2]
                        c == log[t][k][3]
                    IN  /\ \A lower \in 1 .. sv : t % Pow2(lower) = 0
                        /\ c = t + Pow2(sv - 1) /\ c > 0 /\ c < tnum
                        /\ sv = MergeLevel(c) /\ t = ParentOf(c)
    /\ \A c \in Team :
          /\ Cardinality(MergesOf(c)) <= 1
          /\ c = 0 => MergesOf(c) = {}
          /\ (AllExited /\ c > 0) => Cardinality(MergesOf(c)) = 1

C11_Witness ==
    /\ AllExited /\ tnum = 4
    /\ MergesOf(0) = {}
    /\ MergesOf(1) = { << 0, 4 >> } /\ log[0][4] = << "merge", 1, 1 >>
    /\ MergesOf(2) = { << 0, 6 >> } /\ log[0][6] = << "merge", 2, 2 >>
    /\ MergesOf(3) = { << 2, 4 >> } /\ log[2][4] = << "merge", 1, 3 >>

\* Normalize's postcondition as the specification states it: every bin in
\* [-2^DIGITS, 2^DIGITS)
InDigitRange(a) ==
    \A b \in Bins : a[b] >= -Pow2(DIGITS) /\ a[b] < Pow2(DIGITS)

\* C12: in every step that merges, the two operands of the bin-wise
\* addition are normalized forms of acc[t] and acc[t2] (the child's is left
\* in acc[t2], the parent's is what the sum minus the child's gives), each
\* with every bin in [-2^DIGITS, 2^DIGITS); every bin of the sum lies in
\* [-2^(DIGITS+1), 2^(DIGITS+1)), which fits the signed word, and the sum
\* represents the sum of the two numbers: no bin has overflowed.
C12_MergeOperandsNormalized ==
    [][ \A t \in Team :
          (pc[t] = "merge" /\ pc'[t] # "merge") =>
              LET c == t + Pow2(s[t] - 1)
                  o1 == [b \in Bins |-> acc'[t][b] - acc'[c][b]]
                  o2 == acc'[c]
              IN  /\ IsNormalized(o1) /\ InDigitRange(o1)
                  /\ Value(o1) = Value(acc[t])
                  /\ IsNormalized(o2) /\ InDigitRange(o2)
                  /\ Value(o2) = Value(acc[c])
                  /\ \A b \in Bins :
                        /\ acc'[t][b] >= -Pow2(DIGITS + 1)
                        /\ acc'[t][b] < Pow2(DIGITS + 1)
                        /\ acc'[t][b] >= -Pow2(WORDBITS - 1)
                        /\ acc'[t][b] < Pow2(WORDBITS - 1)
                  /\ Value(acc'[t]) = Value(acc[t]) + Value(acc[c])
      ]_vars

C12_Witness ==
    /\ AllExited /\ tnum = 4
    /\ SelectSeq(log[0], IsMerge) = << << "merge", 1, 1 >>, << "merge", 2, 2 >> >>
    /\ IsNormalized(acc[2]) /\ acc[2] # ZeroAcc
    /\ \E b \in Bins : acc[0][b] >= Pow2(DIGITS) /\ acc[0][b] < Pow2(DIGITS + 1)
    /\ Value(acc[0]) = local[0] + local[1] + local[2] + local[3]

\* C13: with the lanes, a remainder batch is loaded only by the last
\* thread, once, and exactly when N is not a multiple of the width; it
\* starts at N rounded down to a multiple of the width and loads N mod
\* width lanes, between 1 and width - 1; with the full batches the last
\* thread has then accumulated exactly the elements of its range up to N,
\* each once, as the loop without the lanes does over the same range.
\* Without the lanes there is no remainder batch.
C13_TailBatch ==
    /\ ~vcl => tails = {}
    /\ vcl =>
        /\ Cardinality(tails) <= 1
        /\ \A e \in tails :
              /\ e.tid = tnum - 1
              /\ N % LANES # 0
              /\ e.from = N - (N % LANES)
              /\ e.lanes = N % LANES
              /\ e.lanes >= 1 /\ e.lanes <= LANES - 1
        /\ \A t \in Team :
              pc[t] \notin {"start", "loop"} =>
                  ((t = tnum - 1 /\ N % LANES # 0) <=> (\E e \in tails : e.tid = t))
        /\ pc[tnum - 1] = "flush" =>
              /\ cache[tnum - 1] =
                    SumTerms(inp, nops, l[tnum - 1], N - l[tnum - 1])
              /\ \A j \in Index :
                    (j >= l[tnum - 1] /\ j < N) => fed[j] = 1

C13_Witness ==
    /\ vcl /\ tnum = 3 /\ N = 2 * LANES + 1
    /\ pc[2] = "flush" /\ l[2] = LANES /\ i[2] = 2 * LANES
    /\ tails = {[tid |-> 2, from |-> 2 * LANES, lanes |-> 1]}
    /\ cache[2] = SumTerms(inp, nops, LANES, LANES + 1)

\* the normalized superaccumulator of the value thread t had accumulated
\* when it entered Reduction
LocalBins(t) == Normalize(AccumulateDouble(ZeroAcc, local[t]))

RECURSIVE FoldLocal(_, _)
\* what levels 1..k of the tree make of the threads' local
\* superaccumulators, in thread t's superaccumulator; the same function in
\* both builds
FoldLocal(t, k) ==
    IF k = 0 THEN LocalBins(t)
    ELSE LET prev == FoldLocal(t, k - 1)
             c == t + Pow2(k - 1)
         IN  IF t % Pow2(k) = 0 /\ c < tnum
             THEN AddBins(Normalize(prev), Normalize(FoldLocal(c, k - 1)))
             ELSE prev

\* the barriers thread t has reached: one after each increment (line 79)
BarriersReached(t) == Len(SelectSeq(log[t], IsInc))

\* C14: in both builds a thread enters Reduction with the normalized
\* superaccumulator of its local value, and when the threads have left
\* Reduction each has done the merges of the tree (same parent, child and level) and acc[0] is the
\* same function of the threads' local superaccumulators.  Without the
\* lanes, a thread waiting at a barrier is never left behind: no thread has
\* left the region, the threads at a barrier are at the same level and
\* have reached the same number of barriers, the others one fewer; at the
\* end all threads have reached ceil(log2 T) barriers.
C14_BarrierSameAsSpin ==
    /\ \A t \in Team :
          (s[t] = 1 /\ pc[t] \in {"red", "exit"}) => acc[t] = LocalBins(t)
    /\ AllExited =>
          /\ acc[0] = FoldLocal(0, CeilLog2(tnum))
          /\ \A t \in Team : SelectSeq(log[t], IsMerge) = TreeMerges(t, 1)
          /\ \A t \in Team : BarriersReached(t) = CeilLog2(tnum)
    /\ ~vcl =>
          \A t \in Team :
              pc[t] = "barrier" =>
                  \A u \in Team :
                      /\ pc[u] # "exit"
                      /\ pc[u] = "barrier" =>
                            (s[u] = s[t] /\ BarriersReached(u) = BarriersReached(t))
                      /\ pc[u] # "barrier" =>
                            BarriersReached(u) = BarriersReached(t) - 1

C14_Witness ==
    /\ ~vcl /\ AllExited /\ tnum = 3 /\ N = 3
    /\ \A t \in Team : BarriersReached(t) = 2 /\ local[t] # 0
    /\ SelectSeq(log[0], IsMerge) = << << "merge", 1, 1 >>, << "merge", 2, 2 >> >>
    /\ acc[0] = FoldLocal(0, 2)

\* thread p is in the loop of line 48, reading the counter of its child,
\* and the child has not incremented it yet
ReadsEarly(p) ==
    /\ pc[p] = "wait"
    /\ ~HasEvent(p + Pow2(s[p] - 1), "inc")

\* C15 as stated: with the spin-wait, no thread reads ready[t] before
\* thread t has written its 0 and incremented it for the first time.
C15_NoReadBeforeFirstIncrement ==
    vcl => \A p \in Team : ~ReadsEarly(p)

\* C15, amended: with the spin-wait, a parent may read ready[t] before
\* thread t has written its 0 or incremented it, but whatever thread t has
\* done by then the slot holds 0, which is below the level, so the parent
\* stays in the loop; a parent is past the loop only when thread t has
\* written its 0 and incremented the slot up to the parent's level.
C15_EarlyReadsSeeZero ==
    vcl =>
        /\ \A t \in Team : ~HasEvent(t, "inc") => ready[t] = 0
        /\ \A p \in Team :
              LET c == p + Pow2(s[p] - 1) IN
              /\ ReadsEarly(p) => (ready[c] = 0 /\ ready[c] < s[p])
              /\ pc[p] = "merge" =>
                    /\ pc[c] # "start" /\ HasEvent(c, "inc")
                    /\ ready[c] >= s[p]

C15_Witness ==
    /\ vcl /\ tnum = 2
    /\ pc[0] = "wait" /\ s[0] = 1 /\ ready[0] = 1
    /\ pc[1] = "start" /\ ready[1] = 0
    /\ ReadsEarly(0)

\* the smaller of two numbers, and the quotient rounded up
Min2(x, y) == IF x < y THEN x ELSE y
CeilDiv(x, y) == (x + y - 1) \div y

\* thread t is through its loop and remainder and has accumulated no
\* element: its range was empty
EmptyRange(t) ==
    /\ pc[t] \notin {"start", "loop"}
    /\ i[t] = l[t]
    /\ \A e \in tails : e.tid # t

\* C16 as stated: the team has min(available threads, ceil(N / grain))
\* threads for some grain >= 8, and with N below 8 times the available
\* threads no thread of the team has an empty range.
C16_TeamSizedByN ==
    (\A t \in Team : pc[t] \notin {"start", "loop"}) =>
        /\ \E grain \in LANES .. (MaxN + LANES) :
              tnum = Min2(MaxThreads, CeilDiv(N, grain))
        /\ N < LANES * MaxThreads => \A t \in Team : ~EmptyRange(t)

\* C16, amended: the team has the number of threads the runtime gives the
\* parallel region, between 1 and the available threads, whatever N is;
\* a thread's range is empty exactly when its two bounds coincide, which
\* happens for some thread whenever N is smaller than the team; such a
\* thread contributes the value 0, and the output still represents the
\* sum of all N terms.
C16_TeamIndependentOfN ==
    /\ tnum >= 1 /\ tnum <= MaxThreads
    /\ \A t \in Team :
          /\ pc[t] \notin {"start", "loop"} =>
                (EmptyRange(t) <=> PartLo(t) = PartHi(t))
          /\ (EmptyRange(t) /\ ~InLocal(t)) => local[t] = 0
    /\ (N < tnum /\ \A t \in Team : pc[t] \notin {"start", "loop"}) =>
          \E t \in Team : EmptyRange(t)
    /\ Done => Value(h_superacc) = SumTerms(inp, nops, 0, N)

C16_Witness ==
    /\ Done /\ tnum = MaxThreads /\ N = 1
    /\ \A t \in Team : EmptyRange(t) <=> t < tnum - 1
    /\ local[tnum - 1] # 0
    /\ Value(h_superacc) = local[tnum - 1]

====
